---- MODULE Spec2Model ----
(***************************************************************************)
(* Model of rig-core's PromptRequest (src/rig-core/src/agent/              *)
(* prompt_request.rs): the builder (new, multi_turn, with_history) and the *)
(* multi-turn loop of PromptRequest::send, one action per stretch of code  *)
(* between two suspension points (.await) of the async function.           *)
(*                                                                         *)
(* Strings are sequences of character codes (NL is the code of "\n").      *)
(* Option<T> is a sequence of length 0 (None) or 1 (Some).                 *)
(***************************************************************************)
EXTENDS Integers, Sequences, FiniteSets, TLC

\* ------------------------------------------------------------------ bounds
\* Largest depth handed to multi_turn.
MaxDepth == 1
\* Largest number of content blocks in one model response.
MaxBlocks == 2

\* Width of usize in bits (64 on the usual targets; the model keeps the
\* arithmetic and narrows it).
UsizeBits == 4

\* usize::MAX
UsizeMax == 2 ^ UsizeBits - 1

\* The character "\n" that joins the text blocks (.join("\n")).
NL == 10

\* ------------------------------------------------------------ data model
None == <<>>
Some(x) == <<x>>

Text(s) == [kind |-> "Text", text |-> s]

ToolCall(id, call_id, name, arguments) ==
    [kind |-> "ToolCall", id |-> id, call_id |-> call_id,
     function |-> [name |-> name, arguments |-> arguments]]

UserMessage(content) == [role |-> "User", content |-> content]

AssistantMessage(id, content) ==
    [role |-> "Assistant", id |-> id, content |-> content]

\* OneOrMany::one(x)
One(x) == <<x>>

\* UserContent::tool_result(id, content)
tool_result(id, content) ==
    [kind |-> "ToolResult", id |-> id, call_id |-> None, content |-> content]

\* UserContent::tool_result_with_call_id(id, call_id, content)
tool_result_with_call_id(id, call_id, content) ==
    [kind |-> "ToolResult", id |-> id, call_id |-> Some(call_id),
     content |-> content]

Ok(v) == [ok |-> TRUE, val |-> v]
Err(e) == [ok |-> FALSE, err |-> e]

\* ------------------------------------------------- the collaborators' inputs
\* The initiating prompt and the histories a caller may own before the call.
ThePrompt == UserMessage(<<Text(<<0>>)>>)

PriorHistories ==
    { <<>>,
      << UserMessage(<<Text(<<7>>)>>), AssistantMessage(None, <<Text(<<8>>)>>) >> }

\* The model's responses.  A response is chosen by its shape (which blocks are
\* text, which are tool calls); the block at position i of the response to
\* completion call t carries contents that name (t, i), so that every block
\* of a conversation is distinguishable from every other.
Kinds == {"Text", "ToolCall"}

Shapes == UNION { [1..n -> Kinds] : n \in 1..MaxBlocks }

HasCallId(t, i) == (t + i) % 2 = 0

\* The name of the tool the block at position i calls.
ToolName(i) == <<5, i>>

BlockAt(kind, t, i) ==
    IF kind = "Text"
    THEN Text(<<t, i>>)
    ELSE ToolCall(<<t, i>>,
                  IF HasCallId(t, i) THEN Some(<<t, i, 9>>) ELSE None,
                  ToolName(i), i)

Response(shape, t) == [choice |-> [i \in 1..Len(shape) |-> BlockAt(shape[i], t, i)]]

\* What the completion call may fail with (CompletionError).
CompletionErrors == {"ProviderError"}

\* serde_json::Value::to_string of the (numeric) arguments.
to_string(arguments) == <<arguments>>

\* The tool registry: agent.tools.call(name, args) returns an output or a
\* ToolSetError; which of the two is the registry's choice.
ToolOutput(name, args) == <<6>> \o name \o args
ToolError(name, args) == [tool |-> name, args |-> args]
ToolOutcomes(name, args) == { Ok(ToolOutput(name, args)), Err(ToolError(name, args)) }

\* ------------------------------------------------------------------- state
VARIABLES
    pc,                 \* "build" | "loop" | "completion" | "tools" | "done"
                        \* | "cancelled"
    prompt,             \* self.prompt
    has_history,        \* self.chat_history.is_some()
    max_depth,          \* self.max_depth
    caller_history,     \* the Vec<Message> behind the &mut handed to with_history
    local_history,      \* the temporary vec![self.prompt] used without a handle
    pre_history,        \* the caller's history when send started
    current_max_depth,  \* the turn counter of send
    tool_calls,         \* the tool-call blocks of the response being resolved
    tool_results,       \* the Vec<Result<UserContent, ToolSetError>> collected so far
    completion_log,     \* the completion calls issued: prompt and context of each
    tool_log,           \* the registry's view: calls received and returned, in order
    outcome,            \* what send returned
    first_run           \* what an earlier run of the same request did, if any

vars == << pc, prompt, has_history, max_depth, caller_history, local_history,
           pre_history, current_max_depth, tool_calls, tool_results,
           completion_log, tool_log, outcome, first_run >>

\* The shape of the state: the fields of PromptRequest and the locals of send.
TypeOK ==
    /\ pc \in {"build", "loop", "completion", "tools", "done", "cancelled"}
    /\ prompt = ThePrompt
    /\ has_history \in BOOLEAN
    /\ max_depth \in 0..UsizeMax
    /\ Len(first_run) <= 1
    /\ current_max_depth \in 0..(MaxDepth + 2)
    /\ has_history => local_history = <<>>
    /\ ~has_history => caller_history = <<>>
    /\ Len(tool_results) <= Len(tool_calls)
    /\ Len(tool_calls) <= MaxBlocks
    /\ outcome.kind \in {"None", "Ok", "CompletionError", "RequestError",
                          "MaxDepthError", "Panic"}
    /\ outcome.kind = "None" <=> pc # "done"

\* The vector `chat_history` of send: the caller's vector through the handle,
\* or the temporary.
chat_history == IF has_history THEN caller_history ELSE local_history

\* ----------------------------------------------------------- pure helpers
IsToolCall(choice) == choice.kind = "ToolCall"
IsText(choice) == choice.kind = "Text"

\* Variant: the first message is taken instead of the last.
LastMessage_First(history) == history[1]

\* chat_history.last()
LastMessage(history) == history[Len(history)]

\* Variant: the whole history is handed over as context.
AllButLast_Whole(history) == history

\* chat_history[..chat_history.len() - 1].to_vec()
AllButLast(history) == SubSeq(history, 1, Len(history) - 1)

\* Variants: the check trips one turn later, one turn earlier.
BudgetExceeded_Late(cur, max) == cur > max + 2
BudgetExceeded_Early(cur, max) == cur > max

\* a + b on usize overflows.
overflows(a, b) == a + b > UsizeMax

\* a + b on usize in a build without overflow checks: the sum wraps.
wrapping_add(a, b) == (a + b) % (UsizeMax + 1)

\* current_max_depth > self.max_depth + 1, as a build without overflow checks
\* evaluates it (with them the sum panics when it overflows: OverflowPanic).
BudgetExceeded(cur, max) == cur > wrapping_add(max, 1)

\* resp.choice.iter().partition(|choice| matches!(choice, ToolCall(_)))
PartitionToolCalls(choice) == SelectSeq(choice, IsToolCall)
PartitionTexts(choice) == SelectSeq(choice, LAMBDA c : ~IsToolCall(c))

\* Variant: the test is inverted.
ReturnsText_Inverted(calls) == calls # <<>>

\* tool_calls.is_empty(): the response is the final answer.
ReturnsText(calls) == calls = <<>>

\* PromptError::MaxDepthError { max_depth, chat_history, prompt }
MaxDepthError(max, history, last_prompt) ==
    [kind |-> "MaxDepthError", max_depth |-> max, chat_history |-> history,
     prompt |-> last_prompt]

\* A panic of the task (expect on an Err or a None, unreachable!()).
Panic(message) == [kind |-> "Panic", message |-> message]

\* [String]::join(sep)
RECURSIVE JoinTail(_, _)
JoinTail(strs, sep) ==
    IF strs = <<>> THEN <<>>
    ELSE sep \o Head(strs) \o JoinTail(Tail(strs), sep)

Join(strs, sep) ==
    IF strs = <<>> THEN <<>>
    ELSE Head(strs) \o JoinTail(Tail(strs), sep)

\* Variant: the texts are concatenated with nothing between them.
MergedTexts_Concat(texts) ==
    LET only == SelectSeq(texts, IsText)
    IN  Join([i \in 1..Len(only) |-> only[i].text], <<>>)

\* texts.into_iter().filter_map(Text => Some(text.text)).collect().join("\n")
MergedTexts(texts) ==
    LET only == SelectSeq(texts, IsText)
    IN  Join([i \in 1..Len(only) |-> only[i].text], <<NL>>)

\* Variant: the secondary call id is dropped.
ToolResultOf_NoCallId(tool_call, output) ==
    tool_result(tool_call.id, One(output))

\* The body of the closure handed to .then(): the block built from a tool
\* call and the output of its call.
ToolResultOf(tool_call, output) ==
    IF tool_call.call_id # None
    THEN tool_result_with_call_id(tool_call.id, tool_call.call_id[1], One(output))
    ELSE tool_result(tool_call.id, One(output))

\* Variant: the last Err wins instead of the first.
RECURSIVE CollectResults_LastErr(_)
CollectResults_LastErr(results) ==
    IF results = <<>> THEN Ok(<<>>)
    ELSE LET rest == CollectResults_LastErr(Tail(results))
         IN  IF ~rest.ok THEN rest
             ELSE IF ~Head(results).ok THEN Head(results)
             ELSE Ok(<<Head(results).val>> \o rest.val)

\* Vec<Result<T, E>>.into_iter().collect::<Result<Vec<T>, E>>()
RECURSIVE CollectResults(_)
CollectResults(results) ==
    IF results = <<>> THEN Ok(<<>>)
    ELSE IF ~Head(results).ok THEN Head(results)
    ELSE LET rest == CollectResults(Tail(results))
         IN  IF rest.ok THEN Ok(<<Head(results).val>> \o rest.val) ELSE rest

\* Variant: the stream ends after its first item.
StageContinues_FirstOnly(calls, results) == FALSE

\* Variant: the stream ends at the first Err (try_collect).
StageContinues_UntilErr(calls, results) ==
    /\ Len(results) < Len(calls)
    /\ \A i \in 1..Len(results) : results[i].ok

\* .then() pulls the next tool call whenever one is left: the stream is
\* collected into a Vec of Results, an Err among them does not end it.
StageContinues(calls, results) == Len(results) < Len(calls)

\* Variant: the message takes the place of the last one.
Push_Overwrite(message) ==
    IF has_history
    THEN /\ caller_history' = Append(SubSeq(caller_history, 1, Len(caller_history) - 1), message)
         /\ UNCHANGED local_history
    ELSE /\ local_history' = Append(SubSeq(local_history, 1, Len(local_history) - 1), message)
         /\ UNCHANGED caller_history

\* Variant: the messages go to a copy, not through the caller's handle.
Push_ToCopy(message) ==
    /\ local_history' = Append(local_history, message)
    /\ UNCHANGED caller_history

\* history.push(message) on the vector chat_history names.
Push(message) ==
    IF has_history
    THEN /\ caller_history' = Append(caller_history, message)
         /\ UNCHANGED local_history
    ELSE /\ local_history' = Append(local_history, message)
         /\ UNCHANGED caller_history

CallEvent(tool_call) ==
    [ev |-> "call", id |-> tool_call.id, name |-> tool_call.function.name,
     args |-> to_string(tool_call.function.arguments)]
ReturnEvent(tool_call, result) ==
    [ev |-> "return", id |-> tool_call.id, ok |-> result.ok]

\* -------------------------------------------------------------------- Init
\* PromptRequest::new(agent, prompt)
Init ==
    /\ pc = "build"
    /\ prompt = ThePrompt
    /\ has_history = FALSE
    /\ max_depth = 0
    /\ caller_history = <<>>
    /\ local_history = <<>>
    /\ pre_history = <<>>
    /\ current_max_depth = 0
    /\ tool_calls = <<>>
    /\ tool_results = <<>>
    /\ completion_log = <<>>
    /\ tool_log = <<>>
    /\ outcome = [kind |-> "None"]
    /\ first_run = None

\* ----------------------------------------------------------------- actions
\* multi_turn as it would be if it rebuilt the request from its prompt
multi_turn_ResetsHistory(depth) ==
    /\ pc = "build"
    /\ UNCHANGED first_run
    /\ max_depth' = depth
    /\ has_history' = FALSE
    /\ caller_history' = <<>>
    /\ UNCHANGED << pc, prompt, local_history, pre_history, current_max_depth,
                    tool_calls, tool_results, completion_log, tool_log, outcome >>

\* PromptRequest::multi_turn(depth)
multi_turn(depth) ==
    /\ pc = "build"
    /\ UNCHANGED first_run
    /\ max_depth' = depth
    /\ UNCHANGED << pc, prompt, has_history, caller_history, local_history,
                    pre_history, current_max_depth, tool_calls, tool_results,
                    completion_log, tool_log, outcome >>

\* PromptRequest::with_history(history)
with_history(history) ==
    /\ pc = "build"
    /\ UNCHANGED first_run
    /\ has_history' = TRUE
    /\ caller_history' = history
    /\ UNCHANGED << pc, prompt, max_depth, local_history, pre_history,
                    current_max_depth, tool_calls, tool_results,
                    completion_log, tool_log, outcome >>

\* Variant: the prompt is put in front of the caller's history.
send_PromptFirst ==
    /\ pc = "build"
    /\ UNCHANGED first_run
    /\ pre_history' = caller_history
    /\ IF has_history
       THEN /\ caller_history' = <<prompt>> \o caller_history
            /\ UNCHANGED local_history
       ELSE /\ local_history' = <<prompt>>
            /\ UNCHANGED caller_history
    /\ current_max_depth' = 0
    /\ pc' = "loop"
    /\ UNCHANGED << prompt, has_history, max_depth, tool_calls, tool_results,
                    completion_log, tool_log, outcome >>

\* into_future / the head of send: push the prompt, zero the counter.
send ==
    /\ pc = "build"
    /\ UNCHANGED first_run
    /\ pre_history' = caller_history
    /\ IF has_history
       THEN /\ caller_history' = Append(caller_history, prompt)
            /\ UNCHANGED local_history
       ELSE /\ local_history' = <<prompt>>
            /\ UNCHANGED caller_history
    /\ current_max_depth' = 0
    /\ pc' = "loop"
    /\ UNCHANGED << prompt, has_history, max_depth, tool_calls, tool_results,
                    completion_log, tool_log, outcome >>

\* Loop head, budget exhausted: break with the last message, return
\* MaxDepthError.
DepthBreak ==
    /\ pc = "loop"
    /\ UNCHANGED first_run
    /\ BudgetExceeded(current_max_depth, max_depth)
    /\ LET last_prompt == LastMessage(chat_history)
       IN  outcome' = MaxDepthError(max_depth, chat_history, last_prompt)
    /\ pc' = "done"
    /\ UNCHANGED << prompt, has_history, max_depth, caller_history,
                    local_history, pre_history, current_max_depth, tool_calls,
                    tool_results, completion_log, tool_log >>

\* Loop head, budget left: count the turn and issue the completion call.
StartTurn ==
    /\ pc = "loop"
    /\ UNCHANGED first_run
    /\ ~BudgetExceeded(current_max_depth, max_depth)
    /\ current_max_depth' = current_max_depth + 1
    /\ completion_log' = Append(completion_log,
            [prompt |-> LastMessage(chat_history),
             context |-> AllButLast(chat_history)])
    /\ pc' = "completion"
    /\ UNCHANGED << prompt, has_history, max_depth, caller_history,
                    local_history, pre_history, tool_calls, tool_results,
                    tool_log, outcome >>

\* Variant: the error is dropped and the loop goes on.
CompletionFails_Swallowed(e) ==
    /\ pc = "completion"
    /\ UNCHANGED first_run
    /\ pc' = "loop"
    /\ UNCHANGED << prompt, has_history, max_depth, caller_history,
                    local_history, pre_history, current_max_depth, tool_calls,
                    tool_results, completion_log, tool_log, outcome >>

\* The completion call fails: `?` returns the error.
CompletionFails(e) ==
    /\ pc = "completion"
    /\ UNCHANGED first_run
    /\ outcome' = [kind |-> "CompletionError", err |-> e]
    /\ pc' = "done"
    /\ UNCHANGED << prompt, has_history, max_depth, caller_history,
                    local_history, pre_history, current_max_depth, tool_calls,
                    tool_results, completion_log, tool_log >>

\* The completion call returns resp: partition, push the Assistant message,
\* then either return the merged text or start the first tool call (a stream
\* over no tool call at all would end at once with no content for the User
\* message, which OneOrMany::many refuses and expect turns into a panic).
CompletionReturns(resp) ==
    /\ pc = "completion"
    /\ UNCHANGED first_run
    /\ LET calls == PartitionToolCalls(resp.choice)
           texts == PartitionTexts(resp.choice)
       IN  /\ Push(AssistantMessage(None, resp.choice))
           /\ IF ReturnsText(calls)
              THEN /\ outcome' = [kind |-> "Ok", text |-> MergedTexts(texts)]
                   /\ pc' = "done"
                   /\ UNCHANGED << tool_calls, tool_results, tool_log >>
              ELSE IF calls = <<>>
              THEN /\ outcome' = Panic("There is atleast one tool call")
                   /\ pc' = "done"
                   /\ UNCHANGED << tool_calls, tool_results, tool_log >>
              ELSE /\ tool_calls' = calls
                   /\ tool_results' = <<>>
                   /\ tool_log' = Append(tool_log, CallEvent(calls[1]))
                   /\ pc' = "tools"
                   /\ UNCHANGED outcome
    /\ UNCHANGED << prompt, has_history, max_depth, pre_history,
                    current_max_depth, completion_log >>

\* The tool call the stream is awaiting.
InFlight == tool_calls[Len(tool_results) + 1]

\* What a call of the registry may return.
RegistryResults ==
    UNION { ToolOutcomes(ToolName(i), to_string(i)) : i \in 1..MaxBlocks }

\* The tool call in flight returns: its Result joins the collected ones; the
\* stream then starts the next call, or ends and the Results are collected
\* into one Result: the first Err is returned, else the User message is pushed.
ToolReturns(result) ==
    /\ pc = "tools"
    /\ UNCHANGED first_run
    /\ result \in ToolOutcomes(InFlight.function.name,
                               to_string(InFlight.function.arguments))
    /\ LET tool_call == tool_calls[Len(tool_results) + 1]
           item == IF result.ok THEN Ok(ToolResultOf(tool_call, result.val))
                   ELSE result
           results == Append(tool_results, item)
           returned == Append(tool_log, ReturnEvent(tool_call, result))
       IN  /\ tool_results' = results
           /\ IF StageContinues(tool_calls, results)
              THEN /\ tool_log' = Append(returned,
                                         CallEvent(tool_calls[Len(results) + 1]))
                   /\ UNCHANGED << pc, outcome, caller_history, local_history >>
              ELSE /\ tool_log' = returned
                   /\ LET tool_content == CollectResults(results)
                      IN  IF tool_content.ok
                          THEN /\ Push(UserMessage(tool_content.val))
                               /\ pc' = "loop"
                               /\ UNCHANGED outcome
                          ELSE /\ outcome' = [kind |-> "RequestError",
                                              err |-> tool_content.err]
                               /\ pc' = "done"
                               /\ UNCHANGED << caller_history, local_history >>
    /\ UNCHANGED << prompt, has_history, max_depth, pre_history,
                    current_max_depth, tool_calls, completion_log >>

Next ==
    \/ \E depth \in 0..MaxDepth : multi_turn(depth)
    \/ \E history \in PriorHistories : with_history(history)
    \/ send
    \/ DepthBreak
    \/ StartTurn
    \/ \E e \in CompletionErrors : CompletionFails(e)
    \/ \E shape \in Shapes : CompletionReturns(Response(shape, current_max_depth))
    \/ \E result \in RegistryResults : ToolReturns(result)

Spec == Init /\ [][Next]_vars

\* Loop head in a build with overflow checks (debug-assertions): the sum
\* self.max_depth + 1 overflows and the task panics.  Such a build panics at
\* the first loop head already.
OverflowPanic ==
    /\ pc = "loop"
    /\ UNCHANGED first_run
    /\ current_max_depth = 0
    /\ overflows(max_depth, 1)
    /\ outcome' = Panic("attempt to add with overflow")
    /\ pc' = "done"
    /\ UNCHANGED << prompt, has_history, max_depth, caller_history,
                    local_history, pre_history, current_max_depth, tool_calls,
                    tool_results, completion_log, tool_log >>

\* The request with any depth a usize holds: the small ones and usize::MAX.
NextWide ==
    \/ Next
    \/ multi_turn(UsizeMax)
    \/ OverflowPanic

SpecWide == Init /\ [][NextWide]_vars

\* The future returned by send is dropped while it is suspended at an .await
\* (on the completion call or on a tool call): no code of send runs any more.
Cancel ==
    /\ pc \in {"completion", "tools"}
    /\ UNCHANGED first_run
    /\ pc' = "cancelled"
    /\ UNCHANGED << prompt, has_history, max_depth, caller_history,
                    local_history, pre_history, current_max_depth, tool_calls,
                    tool_results, completion_log, tool_log, outcome >>

NextCancel == Next \/ Cancel

SpecCancel == Init /\ [][NextCancel]_vars

\* The caller, having run the request without a history, issues it again
\* (same prompt, same depth) with an empty history of its own, and the
\* collaborators answer as they did: the first run is kept for comparison.
Rerun ==
    /\ pc = "done"
    /\ ~has_history
    /\ first_run = None
    /\ first_run' = Some([completion_log |-> completion_log,
                          tool_log |-> tool_log,
                          outcome |-> outcome,
                          history |-> local_history])
    /\ pc' = "build"
    /\ has_history' = TRUE
    /\ caller_history' = <<>>
    /\ local_history' = <<>>
    /\ pre_history' = <<>>
    /\ current_max_depth' = 0
    /\ tool_calls' = <<>>
    /\ tool_results' = <<>>
    /\ completion_log' = <<>>
    /\ tool_log' = <<>>
    /\ outcome' = [kind |-> "None"]
    /\ UNCHANGED << prompt, max_depth >>

\* The responses the model gave in the first run, in order.
FirstResponses ==
    LET answers == SelectSeq(first_run[1].history, LAMBDA m : m.role = "Assistant")
    IN  [t \in 1..Len(answers) |-> [choice |-> answers[t].content]]

\* The completion call of the second run is answered as in the first run.
ReplayCompletion ==
    /\ first_run # None
    /\ pc = "completion"
    /\ \/ \E shape \in Shapes :
             /\ current_max_depth <= Len(FirstResponses)
             /\ Response(shape, current_max_depth) = FirstResponses[current_max_depth]
             /\ CompletionReturns(Response(shape, current_max_depth))
       \/ /\ first_run[1].outcome.kind = "CompletionError"
          /\ current_max_depth = Len(first_run[1].completion_log)
          /\ CompletionFails(first_run[1].outcome.err)

\* The tool call of the second run returns as the call at the same place of
\* the first run did.
ReplayTool ==
    /\ first_run # None
    /\ pc = "tools"
    /\ Len(tool_log) < Len(first_run[1].tool_log)
    /\ first_run[1].tool_log[Len(tool_log) + 1].ev = "return"
    /\ \E result \in RegistryResults :
          /\ result.ok = first_run[1].tool_log[Len(tool_log) + 1].ok
          /\ ToolReturns(result)

\* A step of the second run.
ReplayStep ==
    \/ first_run # None /\ send
    \/ first_run # None /\ DepthBreak
    \/ first_run # None /\ StartTurn
    \/ ReplayCompletion
    \/ ReplayTool

NextReplay ==
    \/ first_run = None /\ Next
    \/ Rerun
    \/ ReplayStep

SpecReplay == Init /\ [][NextReplay]_vars

\* The steps of a request that has been sent, by what they wait for: the
\* task itself at the loop head, the completion call, the tool call.
LoopStep == DepthBreak \/ StartTurn
CompletionStep ==
    \/ \E e \in CompletionErrors : CompletionFails(e)
    \/ \E shape \in Shapes : CompletionReturns(Response(shape, current_max_depth))
ToolStep == \E result \in RegistryResults : ToolReturns(result)

\* The request is polled to completion, and every completion call and every
\* tool call returns.
FairSpec ==
    /\ Spec
    /\ WF_vars(LoopStep)
    /\ WF_vars(CompletionStep)
    /\ WF_vars(ToolStep)

\* ---------------------------------------------------- vocabulary of the claims
\* The messages the request has appended after the initiating prompt.
Appended ==
    IF pc = "build" THEN <<>>
    ELSE SubSeq(chat_history, Len(pre_history) + 2, Len(chat_history))

IsAssistant(m) == m.role = "Assistant"
IsUser(m) == m.role = "User"
HasToolCalls(m) == IsAssistant(m) /\ \E i \in 1..Len(m.content) : IsToolCall(m.content[i])
ToolCallsOf(m) == SelectSeq(m.content, IsToolCall)
IsToolResultMessage(m) ==
    IsUser(m) /\ \A i \in 1..Len(m.content) : m.content[i].kind = "ToolResult"

NumCompletionCalls == Len(completion_log)
NumAssistant == Len(SelectSeq(Appended, IsAssistant))
NumToolResultMessages == Len(SelectSeq(Appended, IsToolResultMessage))
\* Turns whose response carried tool calls (the tool stage ran in each).
NumToolTurns == Len(SelectSeq(Appended, HasToolCalls))
ToolCallEvents == SelectSeq(tool_log, LAMBDA e : e.ev = "call")
ToolFailures == SelectSeq(tool_log, LAMBDA e : e.ev = "return" /\ ~e.ok)

\* ------------------------------------------------------------------ claims
\* C1: a request issues at most max_depth + 2 completion calls: once that
\* many have been issued the budget check at the loop head trips.
C1_AtMostDepthPlusTwoCalls ==
    /\ NumCompletionCalls <= max_depth + 2
    /\ NumCompletionCalls = current_max_depth
    /\ (pc = "loop" /\ NumCompletionCalls = max_depth + 2)
          => BudgetExceeded(current_max_depth, max_depth)

C1_Witness ==
    /\ pc = "done"
    /\ max_depth = 1
    /\ NumCompletionCalls = max_depth + 2

\* C2 (as claimed): tools run in at most max_depth turns; with max_depth = 0
\* no tool is invoked at all and a request whose response carries tool calls
\* ends in MaxDepthError.
C2_ToolTurnsWithinDepth ==
    /\ NumToolTurns <= max_depth
    /\ max_depth = 0 => tool_log = <<>>
    /\ (/\ max_depth = 0
        /\ pc = "done"
        /\ NumToolTurns >= 1
        /\ outcome.kind \notin {"CompletionError", "RequestError"})
          => outcome.kind = "MaxDepthError"

C4_TextFirstResponseSucceeds ==
    (Len(Appended) >= 1 /\ ~HasToolCalls(Appended[1]))
      => /\ pc = "done"
         /\ outcome.kind = "Ok"
         /\ NumCompletionCalls = 1
         /\ tool_log = <<>>
         /\ Len(Appended) = 1

C4_Witness ==
    /\ Len(Appended) >= 1
    /\ ~HasToolCalls(Appended[1])
    /\ max_depth = 1
    /\ outcome.kind = "Ok"

\* C5: a MaxDepthError carries as prompt the last message of the history,
\* which is the User message holding the tool results of the turn before
\* (one block per tool call of the Assistant message preceding it), as
\* chat_history the whole history (the caller's vector as the call leaves
\* it), and as max_depth the configured depth.
C5_DepthErrorPayload ==
    outcome.kind = "MaxDepthError"
      => /\ Len(chat_history) >= 2
         /\ outcome.prompt = chat_history[Len(chat_history)]
         /\ IsToolResultMessage(outcome.prompt)
         /\ LET answered == ToolCallsOf(chat_history[Len(chat_history) - 1])
            IN  /\ IsAssistant(chat_history[Len(chat_history) - 1])
                /\ Len(outcome.prompt.content) = Len(answered)
                /\ \A i \in 1..Len(answered) :
                      outcome.prompt.content[i].id = answered[i].id
         /\ outcome.chat_history = chat_history
         /\ has_history => outcome.chat_history = caller_history
         /\ outcome.chat_history = pre_history \o <<prompt>> \o Appended
         /\ outcome.max_depth = max_depth

C5_Witness ==
    /\ outcome.kind = "MaxDepthError"
    /\ has_history
    /\ pre_history # <<>>
    /\ max_depth = 1

\* C6 (as claimed): at return the history has gained one Assistant message
\* per turn taken and one User tool-result message per turn whose response
\* carried tool calls, whatever the outcome.
C6_OneMessagePerTurn ==
    pc = "done"
      => /\ NumAssistant = current_max_depth
         /\ NumToolResultMessages = NumToolTurns

\* C6 (amended): one Assistant message per turn whose completion call
\* returned a response (none for the turn whose completion call failed or is
\* still awaited), one User tool-result message per turn whose tool calls all
\* succeeded (none for the turn in which a tool call failed or whose tool
\* stage is still running).
C6_OneMessagePerCompletedTurn ==
    pc # "build"
      => /\ NumAssistant = current_max_depth
                - (IF pc = "completion" \/ outcome.kind = "CompletionError"
                   THEN 1 ELSE 0)
         /\ NumToolResultMessages = NumToolTurns
                - (IF pc = "tools" \/ outcome.kind = "RequestError"
                   THEN 1 ELSE 0)
         /\ outcome.kind \in {"Ok", "MaxDepthError"}
               => /\ NumAssistant = current_max_depth
                  /\ NumToolResultMessages = NumToolTurns
         /\ Len(Appended) = NumAssistant + NumToolResultMessages

C6_Witness ==
    /\ outcome.kind = "RequestError"
    /\ has_history
    /\ current_max_depth = 2
    /\ NumToolTurns = 2

\* The positions of the collected Results that are an Err.
Failing == { i \in 1..Len(tool_results) : ~tool_results[i].ok }

\* C7: when a tool call of a turn fails the request returns the error of the
\* first failing call of that turn, the history ends with the Assistant
\* message of the turn (no User message follows it) and no completion call
\* is made after it.
C7_FirstToolErrorReturned ==
    /\ outcome.kind = "RequestError"
          => /\ Failing # {}
             /\ LET first == CHOOSE i \in Failing : \A j \in Failing : i <= j
                    call == tool_calls[first]
                IN  /\ outcome.err = ToolError(call.function.name,
                                               to_string(call.function.arguments))
                    /\ ToolFailures[1].id = call.id
             /\ pc = "done"
             /\ IsAssistant(chat_history[Len(chat_history)])
             /\ ToolCallsOf(chat_history[Len(chat_history)]) = tool_calls
             /\ NumCompletionCalls = NumAssistant
    /\ (ToolFailures # <<>> /\ pc # "tools")
          => outcome.kind = "RequestError"

C7_Witness ==
    /\ outcome.kind = "RequestError"
    /\ Len(tool_results) = 2
    /\ Failing = {1, 2}

\* The turn a tool-log event belongs to, the events of a turn, the response
\* of a turn.
TurnOf(e) == e.id[1]
EventsOfTurn(t) == SelectSeq(tool_log, LAMBDA e : TurnOf(e) = t)
CallsOfTurn(t) == SelectSeq(EventsOfTurn(t), LAMBDA e : e.ev = "call")
Responses == SelectSeq(Appended, IsAssistant)

\* C8: the registry sees the tool calls of a turn one at a time (each call
\* is followed by its own return before the next call), in the order of the
\* response's tool-call blocks, and once the stage is over it has seen every
\* tool call of the turn, also after one of them failed.
C8_SequentialAllAttempted ==
    /\ \A k \in 1..Len(tool_log) :
          IF k % 2 = 1
          THEN tool_log[k].ev = "call"
          ELSE /\ tool_log[k].ev = "return"
               /\ tool_log[k].id = tool_log[k - 1].id
    /\ \A k \in 1..(Len(tool_log) - 1) : TurnOf(tool_log[k]) <= TurnOf(tool_log[k + 1])
    /\ \A t \in 1..Len(Responses) :
          LET calls == ToolCallsOf(Responses[t])
              seen == CallsOfTurn(t)
          IN  /\ Len(seen) <= Len(calls)
              /\ \A j \in 1..Len(seen) :
                    /\ seen[j].id = calls[j].id
                    /\ seen[j].name = calls[j].function.name
                    /\ seen[j].args = to_string(calls[j].function.arguments)
              /\ (t < Len(Responses) \/ pc # "tools")
                    => /\ Len(seen) = Len(calls)
                       /\ Len(EventsOfTurn(t)) = 2 * Len(calls)

C8_Witness ==
    /\ pc = "done"
    /\ Len(tool_results) = 2
    /\ Failing = {1}
    /\ Len(CallsOfTurn(current_max_depth)) = 2

\* C9: the messages appended alternate Assistant, User; each User message
\* holds one ToolResult block per tool call of the Assistant message before
\* it, in the same order, the i-th with the id of the i-th tool call, with
\* its call_id exactly when the tool call has one, and with that call's
\* output; and it is there as soon as all tool calls of a turn succeeded.
C9_ToolResultMessage ==
    /\ \A k \in 1..Len(Appended) : IsUser(Appended[k]) <=> k % 2 = 0
    /\ \A k \in 1..Len(Appended) : IsAssistant(Appended[k]) <=> k % 2 = 1
    /\ \A k \in 1..Len(Appended) :
          IsUser(Appended[k])
            => LET calls == ToolCallsOf(Appended[k - 1])
                   blocks == Appended[k].content
               IN  /\ calls # <<>>
                   /\ Len(blocks) = Len(calls)
                   /\ \A i \in 1..Len(calls) :
                         /\ blocks[i].kind = "ToolResult"
                         /\ blocks[i].id = calls[i].id
                         /\ blocks[i].call_id = calls[i].call_id
                         /\ blocks[i].content =
                               <<ToolOutput(calls[i].function.name,
                                            to_string(calls[i].function.arguments))>>
    /\ (pc \in {"loop", "done"} /\ ToolFailures = <<>> /\ outcome.kind # "CompletionError")
          => NumToolResultMessages = NumToolTurns

C9_Witness ==
    \E k \in 1..Len(Appended) :
        /\ IsUser(Appended[k])
        /\ Len(Appended[k].content) = 2
        /\ Appended[k].content[1].call_id # None
        /\ Appended[k].content[2].call_id = None

\* The strings of a sequence, each but the last followed by a newline.
RECURSIVE NewlineJoined(_)
NewlineJoined(strs) ==
    IF Len(strs) = 0 THEN <<>>
    ELSE IF Len(strs) = 1 THEN strs[1]
    ELSE NewlineJoined(SubSeq(strs, 1, Len(strs) - 1)) \o <<NL>> \o strs[Len(strs)]

TextsOf(m) ==
    LET only == SelectSeq(m.content, IsText)
    IN  [i \in 1..Len(only) |-> only[i].text]

\* C10: the string returned on success is the Text blocks of the last
\* response, which has no tool call, in their order and joined by newlines:
\* nothing of the earlier responses is in it, and no text gives the empty
\* string.
C10_MergedTextOfFinalResponse ==
    /\ outcome.kind = "Ok"
          => LET final == chat_history[Len(chat_history)]
             IN  /\ IsAssistant(final)
                 /\ ~HasToolCalls(final)
                 /\ outcome.text = NewlineJoined(TextsOf(final))
                 /\ Len(outcome.text) = 3 * Len(TextsOf(final)) - 1
                 /\ \A i \in 1..Len(TextsOf(final)) :
                       outcome.text[3 * i - 2] = current_max_depth
    /\ MergedTexts(<<>>) = <<>>

C10_Witness ==
    /\ outcome.kind = "Ok"
    /\ NumToolTurns >= 1
    /\ TextsOf(Appended[1]) # <<>>
    /\ Len(TextsOf(chat_history[Len(chat_history)])) = 2

IsPrefix(s, t) == Len(s) <= Len(t) /\ SubSeq(t, 1, Len(s)) = s

\* C11: from the moment the request is sent the caller's history only grows
\* at its end: every step leaves the messages it held in place, so the
\* history of before the call stays a prefix of it, whatever the outcome.
C11_HistoryAppendOnly ==
    [][pc' # "build"
         => /\ IsPrefix(caller_history, caller_history')
            /\ IsPrefix(local_history, local_history')
            /\ IsPrefix(pre_history', caller_history')
            /\ pc # "build" => pre_history' = pre_history]_vars

C11_Witness ==
    /\ pc = "done"
    /\ has_history
    /\ pre_history # <<>>
    /\ Len(caller_history) >= Len(pre_history) + 4
    /\ IsPrefix(pre_history, caller_history)

C13_ProviderErrorReturned ==
    /\ NumCompletionCalls - NumAssistant \in {0, 1}
    /\ (NumCompletionCalls > NumAssistant /\ pc # "completion")
          => /\ pc = "done"
             /\ outcome.kind = "CompletionError"
    /\ outcome.kind = "CompletionError"
          => LET failed == completion_log[Len(completion_log)]
             IN  /\ pc = "done"
                 /\ outcome.err \in CompletionErrors
                 /\ current_max_depth = NumCompletionCalls
                 /\ NumAssistant = NumCompletionCalls - 1
                 /\ chat_history = failed.context \o <<failed.prompt>>
                 /\ chat_history = pre_history \o <<prompt>> \o Appended
                 /\ NumToolResultMessages = NumAssistant
                 /\ \A k \in 1..Len(tool_log) :
                       tool_log[k].id[1] < current_max_depth

C13_Witness ==
    /\ outcome.kind = "CompletionError"
    /\ has_history
    /\ pre_history # <<>>
    /\ NumCompletionCalls = 2
    /\ NumToolResultMessages = 1

\* C14: the k-th completion call is given as prompt the last message the
\* history had when it was issued and as context all the messages before
\* it, in order: the first call the initiating prompt after the caller's
\* history, every later call the tool-result message of the turn before
\* after a context that ends with that turn's Assistant message.
C14_PromptAndContext ==
    \A k \in 1..Len(completion_log) :
        LET call == completion_log[k]
            whole == call.context \o <<call.prompt>>
        IN  /\ Len(whole) = Len(pre_history) + 2 * k - 1
            /\ IsPrefix(whole, chat_history)
            /\ k = 1 => /\ call.prompt = prompt
                        /\ call.context = pre_history
            /\ k > 1 => /\ IsToolResultMessage(call.prompt)
                        /\ call.prompt = Appended[2 * k - 2]
                        /\ call.context[Len(call.context)] = Appended[2 * k - 3]
                        /\ HasToolCalls(call.context[Len(call.context)])
                        /\ completion_log[k - 1].context \o <<completion_log[k - 1].prompt>>
                             = SubSeq(call.context, 1, Len(call.context) - 1)

C14_Witness ==
    /\ Len(completion_log) = 3
    /\ has_history
    /\ pre_history # <<>>

\* C15: once the loop has started the history is never empty; at a loop head
\* its last message is the initiating prompt before the first turn and a
\* User tool-result message before every later one; the messages appended
\* after the prompt alternate Assistant, User, starting with Assistant.
C15_LoopHeadHistory ==
    /\ pc # "build" => Len(chat_history) >= 1
    /\ pc = "loop"
          => /\ current_max_depth = 0
                  => /\ chat_history[Len(chat_history)] = prompt
                     /\ chat_history = pre_history \o <<prompt>>
             /\ current_max_depth > 0
                  => /\ IsToolResultMessage(chat_history[Len(chat_history)])
                     /\ Len(Appended) = 2 * current_max_depth
    /\ \A k \in 1..Len(Appended) :
          IF k % 2 = 1 THEN IsAssistant(Appended[k])
          ELSE IsToolResultMessage(Appended[k])

C15_Witness ==
    /\ pc = "loop"
    /\ current_max_depth = 2
    /\ has_history
    /\ pre_history # <<>>

Outcomes == {"Ok", "CompletionError", "RequestError", "MaxDepthError"}

\* C16: when every completion call and every tool call returns, a request
\* that was sent ends, with one outcome among Ok, provider error, tool error
\* and MaxDepthError, and the outcome it returned stays.
C16_Terminates ==
    /\ (pc \notin {"build", "done"}) ~> (pc = "done")
    /\ [](pc = "done" => outcome.kind \in Outcomes)
    /\ [](pc # "done" => outcome.kind = "None")
    /\ [][outcome.kind # "None" => (outcome' = outcome /\ pc' = "done")]_vars

C16_Witness ==
    /\ pc = "done"
    /\ outcome.kind = "MaxDepthError"
    /\ max_depth = 0
    /\ Len(tool_log) = 8

\* C17: a request cancelled while it awaits a completion call or a tool call
\* leaves the history as the history of before the call, the prompt and
\* whole appended messages: complete Assistant responses, each but possibly
\* the last followed by a User message with one block per tool call.
\* Cancelled in the tool stage, the history ends with the turn's Assistant
\* message and holds nothing of the results already collected.
C17_CancelLeavesWholeMessages ==
    pc = "cancelled"
      => /\ outcome.kind = "None"
         /\ SubSeq(chat_history, 1, Len(pre_history)) = pre_history
         /\ Len(chat_history) >= Len(pre_history) + 1
         /\ chat_history[Len(pre_history) + 1] = prompt
         /\ \A k \in 1..Len(Appended) :
               IF k % 2 = 1
               THEN /\ IsAssistant(Appended[k])
                    /\ \E shape \in Shapes :
                          Appended[k].content = Response(shape, (k + 1) \div 2).choice
               ELSE /\ IsToolResultMessage(Appended[k])
                    /\ Len(Appended[k].content) = Len(ToolCallsOf(Appended[k - 1]))
         /\ IF Len(tool_log) % 2 = 1
            THEN \* a tool call was in flight
                 /\ Len(Appended) = 2 * current_max_depth - 1
                 /\ ToolCallsOf(Appended[Len(Appended)]) = tool_calls
                 /\ Len(tool_results) < Len(tool_calls)
                 /\ Len(CallsOfTurn(current_max_depth)) = Len(tool_results) + 1
            ELSE \* a completion call was in flight
                 /\ Len(Appended) = 2 * (current_max_depth - 1)
                 /\ NumCompletionCalls = current_max_depth

C17_Witness ==
    /\ pc = "cancelled"
    /\ has_history
    /\ pre_history # <<>>
    /\ Len(tool_calls) = 2
    /\ Len(tool_results) = 1
    /\ current_max_depth = 2

\* C18 (as claimed): whatever usize max_depth is, usize::MAX included, the
\* threshold max_depth + 1 is computed without overflow: no loop head is
\* passed with the sum overflowing, the request does not panic, it makes at
\* least one completion call, and it is allowed no fewer completion calls
\* than a request with max_depth = 0 (two before MaxDepthError).
C18_ThresholdNeverOverflows ==
    /\ pc \in {"completion", "tools", "done"} => ~overflows(max_depth, 1)
    /\ outcome.kind # "Panic"
    /\ pc = "done" => NumCompletionCalls >= 1
    /\ outcome.kind = "MaxDepthError" => NumCompletionCalls >= 2

\* C19: run again with an empty history of the caller's in place of no
\* history, and answered as before, the request issues the same completion
\* calls (same prompt and context each), the same tool calls in the same
\* order, and returns the same result or error: at every step of the second
\* run its calls are a prefix of the first run's, it can always go on until
\* it returns, and when it returns calls and outcome are those of the first.
C19_SameWithEmptyHistory ==
    first_run # None
      => LET first == first_run[1]
         IN  /\ IsPrefix(completion_log, first.completion_log)
             /\ IsPrefix(tool_log, first.tool_log)
             /\ pc # "build" => IsPrefix(caller_history, first.history)
             /\ pc # "done" => ENABLED ReplayStep
             /\ pc = "done"
                   => /\ completion_log = first.completion_log
                      /\ tool_log = first.tool_log
                      /\ outcome = first.outcome
                      /\ caller_history = first.history

C19_Witness ==
    /\ first_run # None
    /\ pc = "done"
    /\ outcome.kind = "MaxDepthError"
    /\ max_depth = 1
    /\ Len(tool_log) >= 8

\* C20: a freshly built request has max_depth 0 and no history, and every
\* builder call changes one field only: a call that changes max_depth leaves
\* the prompt and the history handle as they were, a call that changes the
\* history handle attaches a history and leaves the prompt and max_depth as
\* they were (so the calls commute and the last multi_turn decides the depth).
C20_BuilderFrame ==
    /\ (pc = "build" /\ max_depth = 0 /\ ~has_history /\ prompt = ThePrompt)
    /\ [][(pc = "build" /\ pc' = "build")
            => /\ prompt' = prompt
               /\ max_depth' # max_depth
                    => UNCHANGED << has_history, caller_history >>
               /\ << has_history, caller_history >>' # << has_history, caller_history >>
                    => /\ max_depth' = max_depth
                       /\ has_history']_vars

C20_Witness ==
    /\ pc = "build"
    /\ has_history
    /\ caller_history # <<>>
    /\ max_depth = MaxDepth
    /\ first_run = None

====
